---- MODULE Spec2Model ----
(***************************************************************************)
(* The offer decision engine of the-money-agent (src/decision_engine.py):  *)
(* DecisionEngine.select_best_offers (hard filters, scoring, diversity     *)
(* selection with backfill) and DecisionEngine.update_performance (the     *)
(* performance-history table).                                             *)
(*                                                                         *)
(* Numbers.  The engine computes with Python floats.  The model keeps the  *)
(* same quantities as exact rationals: prices and commission amounts are   *)
(* whole currency units, a rating is held in tenths (4.0 is 40), a score   *)
(* is a fraction <<num, den>> of thousandths, and a rate (ctr,             *)
(* conversion_rate) is a reduced fraction <<num, den>>.  Two rates are     *)
(* equal as floats exactly when they are equal as reduced fractions for    *)
(* the small counters explored here.                                       *)
(***************************************************************************)
EXTENDS Integers, Sequences, FiniteSets, TLC

VARIABLES
    config,               \* DecisionEngine.config (the four thresholds)
    performance_history,  \* DecisionEngine.performance_history: id -> record
    offers,               \* the caller's candidate list
    count,                \* count of the last select_best_offers call
    filtered,             \* local `filtered` of the last call
    scored,               \* local `scored` of the last call
    main,                 \* locals of _select_diverse when its first loop ended
    selected,             \* the list the last call returned
    outcome,              \* "none" | "returned" | "raised" for the last call
    last_call,            \* which operation ran last
    prev,                 \* count and result of the last call made before the latest update
    updates,              \* the last two update_performance calls
    threads,              \* callers in the middle of update_performance
    agent                 \* AutonomousAgent: stats, tracker metrics, cycle steps

vars == <<config, performance_history, offers, count, filtered, scored, main,
          selected, outcome, last_call, prev, updates, threads, agent>>

-----------------------------------------------------------------------------
(* Bounds of the exploration. *)

MaxOffers == 3
MaxCount == 3
MaxInc == 1
MaxTotal == 3
MaxFilterLen == 2
MaxScoreLen == 1
MaxSlotOffers == 4
MaxSlotCount == 4
MaxThreads == 2
MaxCycles == 2

-----------------------------------------------------------------------------
(* Python values and helpers. *)

\* Python's None, as it appears in a str-typed field.
NoneValue == "<None>"

\* dict.get(key, default)
Get(d, key, default) == IF key \in DOMAIN d THEN d[key] ELSE default

\* bool(v) is False for None and for the empty string
Truthy(v) == v # NoneValue /\ v # ""

Min(a, b) == IF a <= b THEN a ELSE b

RECURSIVE GCD(_, _)
GCD(a, b) == IF b = 0 THEN a ELSE GCD(b, a % b)

\* a reduced fraction num/den, den > 0
Ratio(num, den) == LET g == GCD(num, den) IN
                   IF g = 0 THEN <<0, 1>> ELSE <<num \div g, den \div g>>

RatLess(x, y) == x[1] * y[2] < y[1] * x[2]

\* Faulty variant: the score multiplied by the rate itself.
Boost_ByRate(x, r) == Ratio(x[1] * r[1], x[2] * r[2])

\* x * (1 + r) for fractions x and r
Boost(x, r) == Ratio(x[1] * (r[2] + r[1]), x[2] * r[2])

-----------------------------------------------------------------------------
(* Offers.  An offer is either a plain mapping or an AffiliateOffer object  *)
(* (src/affiliate_connector.py).  `ref` is the identity of an object; a     *)
(* mapping has ref 0 and is compared by content.                            *)

OfferKeys == {"id", "network", "title", "image_url", "price", "original_price",
              "discount_percent", "commission_rate", "commission_amount",
              "category", "affiliate_url", "rating", "reviews"}

\* the default AffiliateOffer.__init__ gives an attribute absent from data
AttrDefault(key) ==
    IF key \in {"price", "original_price", "discount_percent",
                "commission_rate", "commission_amount", "rating", "reviews"}
    THEN 0
    ELSE IF key = "category" THEN "General" ELSE NoneValue

\* AffiliateOffer(data): the attributes of the new object
AffiliateOffer(data) == [key \in OfferKeys |-> Get(data, key, AttrDefault(key))]

\* AffiliateOffer.to_dict()
to_dict(offer) == [key \in OfferKeys |-> offer.fields[key]]

\* offer.to_dict() if hasattr(offer, 'to_dict') else offer
OfferDict(offer) == IF offer.kind = "object" THEN to_dict(offer) ELSE offer.fields

MappingOffer(data) == [kind |-> "mapping", ref |-> 0, fields |-> data]
ObjectOffer(data, ref) == [kind |-> "object", ref |-> ref, fields |-> AffiliateOffer(data)]

-----------------------------------------------------------------------------
(* DecisionEngine._apply_filters *)

MinRating == 40
MinReviews == 50

\* Faulty variant: the price bounds taken as exclusive.
PassesFilters_ExclusivePrice(cfg, offer) ==
    LET offer_dict == OfferDict(offer) IN
    /\ ~(offer_dict["commission_rate"] < cfg.min_commission_rate)
    /\ ~(offer_dict["discount_percent"] < cfg.min_discount_percent)
    /\ ~(offer_dict["price"] <= cfg.min_price \/ offer_dict["price"] >= cfg.max_price)
    /\ Truthy(Get(offer_dict, "image_url", NoneValue))
    /\ Truthy(Get(offer_dict, "affiliate_url", NoneValue))
    /\ ~(Get(offer_dict, "rating", 0) < MinRating \/ Get(offer_dict, "reviews", 0) < MinReviews)

\* Faulty variant: the quality filter (filter 6) left out.
PassesFilters_NoQuality(cfg, offer) ==
    LET offer_dict == OfferDict(offer) IN
    /\ ~(offer_dict["commission_rate"] < cfg.min_commission_rate)
    /\ ~(offer_dict["discount_percent"] < cfg.min_discount_percent)
    /\ ~(offer_dict["price"] < cfg.min_price \/ offer_dict["price"] > cfg.max_price)
    /\ Truthy(Get(offer_dict, "image_url", NoneValue))
    /\ Truthy(Get(offer_dict, "affiliate_url", NoneValue))

\* Faulty variant: the commission comparison turned around.
PassesFilters_FlippedCommission(cfg, offer) ==
    LET offer_dict == OfferDict(offer) IN
    /\ ~(offer_dict["commission_rate"] > cfg.min_commission_rate)
    /\ ~(offer_dict["discount_percent"] < cfg.min_discount_percent)
    /\ ~(offer_dict["price"] < cfg.min_price \/ offer_dict["price"] > cfg.max_price)
    /\ Truthy(Get(offer_dict, "image_url", NoneValue))
    /\ Truthy(Get(offer_dict, "affiliate_url", NoneValue))
    /\ ~(Get(offer_dict, "rating", 0) < MinRating \/ Get(offer_dict, "reviews", 0) < MinReviews)

\* Faulty variant: an absent rating or review count read as the minimum.
PassesFilters_LenientDefault(cfg, offer) ==
    LET offer_dict == OfferDict(offer) IN
    /\ ~(offer_dict["commission_rate"] < cfg.min_commission_rate)
    /\ ~(offer_dict["discount_percent"] < cfg.min_discount_percent)
    /\ ~(offer_dict["price"] < cfg.min_price \/ offer_dict["price"] > cfg.max_price)
    /\ Truthy(Get(offer_dict, "image_url", NoneValue))
    /\ Truthy(Get(offer_dict, "affiliate_url", NoneValue))
    /\ ~(Get(offer_dict, "rating", MinRating) < MinRating
          \/ Get(offer_dict, "reviews", MinReviews) < MinReviews)

PassesFilters(cfg, offer) ==
    LET offer_dict == OfferDict(offer) IN
    /\ ~(offer_dict["commission_rate"] < cfg.min_commission_rate)
    /\ ~(offer_dict["discount_percent"] < cfg.min_discount_percent)
    /\ ~(offer_dict["price"] < cfg.min_price \/ offer_dict["price"] > cfg.max_price)
    /\ Truthy(Get(offer_dict, "image_url", NoneValue))
    /\ Truthy(Get(offer_dict, "affiliate_url", NoneValue))
    /\ ~(Get(offer_dict, "rating", 0) < MinRating \/ Get(offer_dict, "reviews", 0) < MinReviews)

_apply_filters(cfg, offer_list) ==
    SelectSeq(offer_list, LAMBDA offer: PassesFilters(cfg, offer))

-----------------------------------------------------------------------------
(* DecisionEngine._score_offers *)

trending_categories == {"Electronics", "Smart Home", "Fitness", "Kitchen"}

\* Faulty variant: the lower edge of the best price tier taken as exclusive.
PriceScore_ExclusiveEdge(price) ==
    IF 50 < price /\ price <= 200 THEN 15
    ELSE IF (20 <= price /\ price < 50) \/ (200 < price /\ price <= 350) THEN 10
    ELSE 5

\* price_score of lines 101-107
PriceScore(price) ==
    IF 50 <= price /\ price <= 200 THEN 15
    ELSE IF (20 <= price /\ price < 50) \/ (200 < price /\ price <= 350) THEN 10
    ELSE 5

\* the sum of the four components, in hundredths:
\* commission_amount * 0.4 + discount_percent / 100 * 25
\*   + rating / 5.0 * 10 + min(reviews / 1000, 1.0) * 10 + price_score
ComponentSum(offer_dict) ==
      offer_dict["commission_amount"] * 40
    + offer_dict["discount_percent"] * 25
    + Get(offer_dict, "rating", 0) * 20
    + Min(Get(offer_dict, "reviews", 0), 1000)
    + PriceScore(offer_dict["price"]) * 100

\* the sum after the trending bonus (score *= 1.1), as a fraction
TrendingScore(offer_dict) ==
    IF Get(offer_dict, "category", NoneValue) \in trending_categories
    THEN Ratio(ComponentSum(offer_dict) * 11, 1000)
    ELSE Ratio(ComponentSum(offer_dict) * 10, 1000)

\* Faulty variant: the historical performance boost left out.
Score_NoHistory(table, offer) == TrendingScore(OfferDict(offer))

\* the final score of one offer under a performance table
Score(table, offer) ==
    LET offer_dict == OfferDict(offer)
        offer_id == offer_dict["id"]
    IN IF offer_id \in DOMAIN table
       THEN Boost(TrendingScore(offer_dict), table[offer_id].ctr)
       ELSE TrendingScore(offer_dict)

\* Faulty variant: an item placed in front of the items of equal score.
RECURSIVE InsertDesc_BeforeEqual(_, _)
InsertDesc_BeforeEqual(sorted, item) ==
    IF sorted = << >> THEN <<item>>
    ELSE IF ~RatLess(item.score, Head(sorted).score)
         THEN <<item>> \o sorted
         ELSE <<Head(sorted)>> \o InsertDesc_BeforeEqual(Tail(sorted), item)

\* list.sort(key=score, reverse=True): stable, descending.
RECURSIVE InsertDesc(_, _)
InsertDesc(sorted, item) ==
    IF sorted = << >> THEN <<item>>
    ELSE IF RatLess(Head(sorted).score, item.score)
         THEN <<item>> \o sorted
         ELSE <<Head(sorted)>> \o InsertDesc(Tail(sorted), item)

RECURSIVE SortDesc(_)
SortDesc(items) ==
    IF items = << >> THEN << >>
    ELSE InsertDesc(SortDesc(SubSeq(items, 1, Len(items) - 1)), items[Len(items)])

\* Faulty variant: the scored list left in input order.
_score_offers_Unsorted(table, offer_list) ==
    [i \in 1..Len(offer_list) |->
        [offer |-> offer_list[i], score |-> Score(table, offer_list[i])]]

_score_offers(table, offer_list) ==
    SortDesc([i \in 1..Len(offer_list) |->
                 [offer |-> offer_list[i], score |-> Score(table, offer_list[i])]])

-----------------------------------------------------------------------------
(* DecisionEngine._select_diverse *)

\* offer_dict['title'][:50] of the log line: KeyError when the key is absent,
\* TypeError when the title is None
LogLineRaises(offer_dict) ==
    \/ "title" \notin DOMAIN offer_dict
    \/ offer_dict["title"] = NoneValue

InitialPass == [selected |-> << >>, categories_used |-> {},
                networks_used |-> [n \in {} |-> 0], raised |-> FALSE]

\* the selection step of lines 163-165
Selecting(st, offer, offer_dict, category, network) ==
    [selected |-> Append(st.selected, offer),
     categories_used |-> st.categories_used \cup {category},
     networks_used |->
         [n \in DOMAIN st.networks_used \cup {network} |->
             IF n = network THEN Get(st.networks_used, network, 0) + 1
             ELSE st.networks_used[n]],
     raised |-> LogLineRaises(offer_dict)]

\* Faulty variant: the loop without its break at count selections.
MainIteration_NoBreak(st, item, cnt) ==
    IF st.raised THEN st
    ELSE LET offer == item.offer
             offer_dict == OfferDict(offer)
             category == Get(offer_dict, "category", "General")
             network == Get(offer_dict, "network", "unknown")
         IN IF Len(st.selected) < cnt - 1 /\ category \in st.categories_used
            THEN st
            ELSE IF Get(st.networks_used, network, 0) >= cnt \div 2
            THEN st
            ELSE Selecting(st, offer, offer_dict, category, network)

\* Faulty variant: the loop without the network cap.
MainIteration_NoCap(st, item, cnt) ==
    IF st.raised \/ Len(st.selected) >= cnt THEN st
    ELSE LET offer == item.offer
             offer_dict == OfferDict(offer)
             category == Get(offer_dict, "category", "General")
             network == Get(offer_dict, "network", "unknown")
         IN IF Len(st.selected) < cnt - 1 /\ category \in st.categories_used
            THEN st
            ELSE Selecting(st, offer, offer_dict, category, network)

\* one iteration of the first loop (lines 143-171)
\* Faulty variant: the category rule left out.
MainIteration_NoCategoryRule(st, item, cnt) ==
    IF st.raised \/ Len(st.selected) >= cnt THEN st
    ELSE LET offer == item.offer
             offer_dict == OfferDict(offer)
             category == Get(offer_dict, "category", "General")
             network == Get(offer_dict, "network", "unknown")
         IN IF Get(st.networks_used, network, 0) >= cnt \div 2
            THEN st
            ELSE Selecting(st, offer, offer_dict, category, network)

\* Faulty variant: the category rule applied to the last slot too.
MainIteration_AlwaysCategory(st, item, cnt) ==
    IF st.raised \/ Len(st.selected) >= cnt THEN st
    ELSE LET offer == item.offer
             offer_dict == OfferDict(offer)
             category == Get(offer_dict, "category", "General")
             network == Get(offer_dict, "network", "unknown")
         IN IF category \in st.categories_used
            THEN st
            ELSE IF Get(st.networks_used, network, 0) >= cnt \div 2
            THEN st
            ELSE Selecting(st, offer, offer_dict, category, network)

MainIteration(st, item, cnt) ==
    IF st.raised \/ Len(st.selected) >= cnt THEN st
    ELSE LET offer == item.offer
             offer_dict == OfferDict(offer)
             category == Get(offer_dict, "category", "General")
             network == Get(offer_dict, "network", "unknown")
         IN IF Len(st.selected) < cnt - 1 /\ category \in st.categories_used
            THEN st
            ELSE IF Get(st.networks_used, network, 0) >= cnt \div 2
            THEN st
            ELSE Selecting(st, offer, offer_dict, category, network)

\* the locals after the first k items of the first loop
RECURSIVE MainPass(_, _, _)
MainPass(scored_list, cnt, k) ==
    IF k = 0 THEN InitialPass
    ELSE MainIteration(MainPass(scored_list, cnt, k - 1), scored_list[k], cnt)

\* Faulty variant: the membership test inverted.
NotIn_Inverted(offer, list) == \E i \in 1..Len(list) : list[i] = offer

\* Faulty variant: no membership test.
NotIn_Always(offer, list) == TRUE

\* offer not in selected
NotIn(offer, list) == \A i \in 1..Len(list) : list[i] # offer

\* Faulty variant: backfill that appends the score record, not the offer.
RECURSIVE Backfill_AppendsRecord(_, _, _, _)
Backfill_AppendsRecord(sel, scored_list, cnt, k) ==
    IF k = 0 THEN sel
    ELSE LET before == Backfill_AppendsRecord(sel, scored_list, cnt, k - 1)
             offer == scored_list[k].offer
         IN IF Len(before) >= cnt THEN before
            ELSE IF NotIn(offer, before) THEN Append(before, scored_list[k]) ELSE before

\* Faulty variant: backfill that keeps to the network cap.
RECURSIVE Backfill_KeepsCap(_, _, _, _)
Backfill_KeepsCap(sel, scored_list, cnt, k) ==
    IF k = 0 THEN sel
    ELSE LET before == Backfill_KeepsCap(sel, scored_list, cnt, k - 1)
             offer == scored_list[k].offer
             same == { i \in 1..Len(before) :
                          OfferDict(before[i])["network"] = OfferDict(offer)["network"] }
         IN IF Len(before) >= cnt THEN before
            ELSE IF Cardinality(same) >= cnt \div 2 THEN before
            ELSE IF NotIn(offer, before) THEN Append(before, offer) ELSE before

\* the second loop (lines 174-180), after its first k items
RECURSIVE Backfill(_, _, _, _)
Backfill(sel, scored_list, cnt, k) ==
    IF k = 0 THEN sel
    ELSE LET before == Backfill(sel, scored_list, cnt, k - 1)
             offer == scored_list[k].offer
         IN IF Len(before) >= cnt THEN before
            ELSE IF NotIn(offer, before) THEN Append(before, offer) ELSE before

\* Faulty variant: no backfill.
_select_diverse_NoBackfill(scored_list, cnt) ==
    MainPass(scored_list, cnt, Len(scored_list)).selected

\* the list _select_diverse returns when the log line does not raise
_select_diverse(scored_list, cnt) ==
    LET st == MainPass(scored_list, cnt, Len(scored_list)) IN
    IF Len(st.selected) < cnt
    THEN Backfill(st.selected, scored_list, cnt, Len(scored_list))
    ELSE st.selected

-----------------------------------------------------------------------------
(* DecisionEngine.update_performance *)

MetricKeys == {"impressions", "clicks", "conversions", "revenue"}

EmptyTable == [id \in {} |-> 0]

\* the record created for an id seen for the first time (lines 187-194)
NewRecord == [impressions |-> 0, clicks |-> 0, conversions |-> 0, revenue |-> 0,
              ctr |-> <<0, 1>>, conversion_rate |-> <<0, 1>>]

\* Faulty variant: the counters overwritten instead of incremented.
Incremented_Overwrite(history, metrics) ==
    [history EXCEPT !.impressions = Get(metrics, "impressions", @),
                    !.clicks = Get(metrics, "clicks", @),
                    !.conversions = Get(metrics, "conversions", @),
                    !.revenue = Get(metrics, "revenue", @)]

\* lines 197-200: the four additive increments
Incremented(history, metrics) ==
    [history EXCEPT !.impressions = @ + Get(metrics, "impressions", 0),
                    !.clicks = @ + Get(metrics, "clicks", 0),
                    !.conversions = @ + Get(metrics, "conversions", 0),
                    !.revenue = @ + Get(metrics, "revenue", 0)]

\* Faulty variant: the rates left as they were.
Rated_Stale(history) == history

\* Faulty variant: the conversion rate recomputed only when there are impressions.
Rated_GuardedByImpressions(history) ==
    [history EXCEPT !.ctr = IF history.impressions > 0
                            THEN Ratio(history.clicks, history.impressions) ELSE @,
                    !.conversion_rate = IF history.impressions > 0 /\ history.clicks > 0
                                        THEN Ratio(history.conversions, history.clicks) ELSE @]

\* lines 203-206: the rates, recomputed from the totals when the divisor is positive
Rated(history) ==
    [history EXCEPT !.ctr = IF history.impressions > 0
                            THEN Ratio(history.clicks, history.impressions) ELSE @,
                    !.conversion_rate = IF history.clicks > 0
                                        THEN Ratio(history.conversions, history.clicks) ELSE @]

\* Faulty variant: one record shared by every id of the table.
UpdatedTable_SharedRecord(table, offer_id, metrics) ==
    LET history == IF offer_id \in DOMAIN table THEN table[offer_id] ELSE NewRecord
    IN [id \in DOMAIN table \cup {offer_id} |-> Rated(Incremented(history, metrics))]

\* Faulty variant: the update that creates a record does not apply its increments.
UpdatedTable_SkipFirst(table, offer_id, metrics) ==
    [id \in DOMAIN table \cup {offer_id} |->
        IF id # offer_id THEN table[id]
        ELSE IF offer_id \in DOMAIN table
             THEN Rated(Incremented(table[offer_id], metrics)) ELSE NewRecord]

\* Faulty variant: every update starts the id's record afresh.
UpdatedTable_AlwaysNew(table, offer_id, metrics) ==
    [id \in DOMAIN table \cup {offer_id} |->
        IF id = offer_id THEN Rated(Incremented(NewRecord, metrics)) ELSE table[id]]

\* the statements of update_performance, one at a time, for callers that are
\* not serialized. `history['k'] += v` reads the counter and then writes it.
KeyOrder == <<"impressions", "clicks", "conversions", "revenue">>

\* lines 186-194: the record created when the id has none
WithRecord(table, offer_id) ==
    IF offer_id \in DOMAIN table THEN table
    ELSE [id \in DOMAIN table \cup {offer_id} |->
             IF id = offer_id THEN NewRecord ELSE table[id]]

\* the write half of one of lines 197-200
Stored(table, offer_id, key, value) ==
    [table EXCEPT ![offer_id] =
        [field \in DOMAIN @ |-> IF field = key THEN value ELSE @[field]]]

\* the table after update_performance(offer_id, metrics)
UpdatedTable(table, offer_id, metrics) ==
    LET history == IF offer_id \in DOMAIN table THEN table[offer_id] ELSE NewRecord
    IN [id \in DOMAIN table \cup {offer_id} |->
           IF id = offer_id THEN Rated(Incremented(history, metrics)) ELSE table[id]]

\* History kept for the properties (no counterpart in the code): `updates`
\* holds a run of one or two consecutive updates of one id, as the table before
\* the run and the key-wise sum of the run's metrics; `prev` holds the last
\* selection made before the latest update.
MergedMetrics(m1, m2) ==
    [key \in DOMAIN m1 \cup DOMAIN m2 |-> Get(m1, key, 0) + Get(m2, key, 0)]

NoUpdates == [n |-> 0, offer_id |-> "", metrics |-> [key \in {} |-> 0], before |-> EmptyTable]

-----------------------------------------------------------------------------
(* AutonomousAgent.run_cycle and the AnalyticsTracker it records to *)

posts_per_hour == 2

\* AutonomousAgent.__init__ (stats) and AnalyticsTracker._load_metrics
NewAgent ==
    [attached |-> TRUE,
     stats |-> [cycles_run |-> 0, offers_processed |-> 0, posts_published |-> 0,
                errors |-> 0],
     content_items |-> 0,
     landing_pages |-> 0,
     total_clicks |-> 0,
     total_conversions |-> 0,
     offer_performance |-> [id \in {} |-> 0],
     started |-> 0]

\* how steps 3 to 6 of a cycle can end: every post published, no post
\* published, an exception while generating content, an exception while
\* recording analytics
CycleEndings == {"published", "unpublished", "content_failed", "record_failed"}

\* AnalyticsTracker.record_cycle: the per-offer records
RecordedCycle(offer_performance, promoted) ==
    LET ids == { OfferDict(promoted[i])["id"] : i \in 1..Len(promoted) }
        times(id) == Cardinality({ i \in 1..Len(promoted) : OfferDict(promoted[i])["id"] = id })
        before(id) == IF id \in DOMAIN offer_performance THEN offer_performance[id]
                      ELSE [clicks |-> 0, conversions |-> 0, times_promoted |-> 0]
    IN [id \in DOMAIN offer_performance \cup ids |->
           IF id \in ids
           THEN [before(id) EXCEPT !.times_promoted = @ + times(id)]
           ELSE offer_performance[id]]

\* Faulty variant: a cycle with an empty selection counted as a cycle run.
AfterCycle_CountsSkipped(a, fetched, result, call_outcome, ending) ==
    [a EXCEPT !.stats.offers_processed = @ + fetched,
              !.stats.cycles_run = @ + 1,
              !.started = @ + 1]

\* the agent after run_cycle, given what the engine returned
AfterCycle(a, fetched, result, call_outcome, ending) ==
    LET begun == [a EXCEPT !.stats.offers_processed = @ + fetched, !.started = @ + 1]
        n == Len(result)
    IN IF call_outcome = "raised"
       THEN [begun EXCEPT !.stats.errors = @ + 1]
       ELSE IF result = << >>
       THEN begun
       ELSE IF ending = "content_failed"
       THEN [begun EXCEPT !.stats.errors = @ + 1]
       ELSE IF ending = "record_failed"
       THEN [begun EXCEPT !.content_items = @ + n, !.landing_pages = @ + n,
                          !.stats.posts_published = @ + n, !.stats.errors = @ + 1]
       ELSE [begun EXCEPT !.content_items = @ + n, !.landing_pages = @ + n,
                          !.stats.posts_published =
                              @ + (IF ending = "published" THEN n ELSE 0),
                          !.offer_performance = RecordedCycle(@, result),
                          !.stats.cycles_run = @ + 1]

\* AnalyticsTracker.track_click
TrackedClick(a, offer_id) ==
    [a EXCEPT !.total_clicks = @ + 1,
              !.offer_performance =
                  IF offer_id \in DOMAIN @
                  THEN [@ EXCEPT ![offer_id].clicks = @ + 1] ELSE @]

\* AnalyticsTracker.track_conversion
TrackedConversion(a, offer_id) ==
    [a EXCEPT !.total_conversions = @ + 1,
              !.offer_performance =
                  IF offer_id \in DOMAIN @
                  THEN [@ EXCEPT ![offer_id].conversions = @ + 1] ELSE @]

-----------------------------------------------------------------------------
(* The operations as actions. *)

NoCall == [count |-> 0, selected |-> << >>, outcome |-> "none"]

\* no caller is inside update_performance; no agent is attached
NoThreads == [serialized |-> TRUE, pc |-> << >>, key |-> << >>, tmp |-> << >>,
              metrics |-> << >>]
NoAgent == [attached |-> FALSE]

\* Faulty variant: scoring leaves an all-zero record for every scored id that
\* had none.
select_best_offers_Recording(cnt) ==
    LET f == _apply_filters(config, offers)
        sc == _score_offers(performance_history, f)
        st == MainPass(sc, cnt, Len(sc))
        ids == { OfferDict(f[i])["id"] : i \in 1..Len(f) }
    IN /\ count' = cnt
       /\ filtered' = f
       /\ IF f = << >>
          THEN /\ scored' = << >>
               /\ main' = InitialPass
               /\ selected' = << >>
               /\ outcome' = "returned"
          ELSE /\ scored' = sc
               /\ main' = st
               /\ IF st.raised
                  THEN selected' = << >> /\ outcome' = "raised"
                  ELSE selected' = _select_diverse(sc, cnt) /\ outcome' = "returned"
       /\ last_call' = "select_best_offers"
       /\ performance_history' =
              [id \in DOMAIN performance_history \cup ids |->
                  IF id \in DOMAIN performance_history
                  THEN performance_history[id] ELSE NewRecord]
       /\ UNCHANGED <<config, offers, prev, updates>>

select_best_offers(cnt) ==
    LET f == _apply_filters(config, offers)
        sc == _score_offers(performance_history, f)
        st == MainPass(sc, cnt, Len(sc))
    IN /\ count' = cnt
       /\ filtered' = f
       /\ IF f = << >>
          THEN /\ scored' = << >>
               /\ main' = InitialPass
               /\ selected' = << >>
               /\ outcome' = "returned"
          ELSE /\ scored' = sc
               /\ main' = st
               /\ IF st.raised
                  THEN selected' = << >> /\ outcome' = "raised"
                  ELSE selected' = _select_diverse(sc, cnt) /\ outcome' = "returned"
       /\ last_call' = "select_best_offers"
       /\ UNCHANGED <<config, performance_history, offers, prev, updates>>

update_performance(offer_id, metrics) ==
    /\ performance_history' = UpdatedTable(performance_history, offer_id, metrics)
    /\ updates' = IF updates.n = 1 /\ updates.offer_id = offer_id
                  THEN [updates EXCEPT !.n = 2,
                                       !.metrics = MergedMetrics(@, metrics)]
                  ELSE [n |-> 1, offer_id |-> offer_id, metrics |-> metrics,
                        before |-> performance_history]
    /\ prev' = [count |-> count, selected |-> selected, outcome |-> outcome]
    /\ last_call' = "update_performance"
    /\ UNCHANGED <<config, offers, count, filtered, scored, main, selected, outcome>>

-----------------------------------------------------------------------------
(* Inputs. *)

\* AgentConfig defaults (src/autonomous_agent.py) and a stricter configuration
DefaultConfig == [min_commission_rate |-> 5, min_discount_percent |-> 15,
                  min_price |-> 10, max_price |-> 500]
StrictConfig == [min_commission_rate |-> 10, min_discount_percent |-> 20,
                 min_price |-> 50, max_price |-> 100]
Configs == {DefaultConfig, StrictConfig}

OfferData(id, network, category, price, commission_amount, rating) ==
    [id |-> id, network |-> network, title |-> "Deal", image_url |-> "img",
     price |-> price, original_price |-> price + 50, discount_percent |-> 20,
     commission_rate |-> 10, commission_amount |-> commission_amount,
     category |-> category, affiliate_url |-> "aff", rating |-> rating,
     reviews |-> 500]

\* the data of an offer without the key title
Untitled(data) == [key \in DOMAIN data \ {"title"} |-> data[key]]

Catalogue ==
    { OfferData("A", "amazon", "Electronics", 100, 30, 45),
      OfferData("B", "amazon", "Electronics", 100, 20, 45),
      OfferData("C", "cj", "Electronics", 120, 20, 45),
      OfferData("D", "cj", "Books", 100, 20, 45),
      OfferData("E", "impact", "Kitchen", 100, 10, 45),
      OfferData("F", "impact", "Books", 100, 40, 39),
      Untitled(OfferData("H", "cj", "Kitchen", 100, 25, 45)) }

\* all lists of at most n elements of S
SeqsUpTo(S, n) == UNION { [1..k -> S] : k \in 0..n }

\* a list of plain mappings, or of objects (the i-th element is the object i,
\* unless its data equals an earlier element's: then it is that same object)
FirstIndex(datas, i) == CHOOSE j \in 1..i : datas[j] = datas[i] /\ \A k \in 1..(j-1) : datas[k] # datas[i]
AsMappings(datas) == [i \in 1..Len(datas) |-> MappingOffer(datas[i])]
AsObjects(datas) == [i \in 1..Len(datas) |-> ObjectOffer(datas[i], FirstIndex(datas, i))]

OfferLists(S, n) ==
    { AsMappings(datas) : datas \in SeqsUpTo(S, n) } \cup
    { AsObjects(datas) : datas \in SeqsUpTo(S, n) }

PerfIds == {"B", "D"}

\* partial metrics mappings with increments in 1..MaxInc, and the mapping that
\* carries every key with increment 0
MetricsInputs ==
    UNION { [keys -> 1..MaxInc] : keys \in SUBSET MetricKeys }
    \cup { [key \in MetricKeys |-> 0] }

\* the metrics a report carries: impressions with clicks, clicks alone, or a
\* sale with its revenue
ClickReports ==
    { [impressions |-> MaxInc, clicks |-> clicks] : clicks \in 0..MaxInc }
    \cup { [clicks |-> MaxInc], [conversions |-> MaxInc, revenue |-> MaxInc] }

RECURSIVE SumOver(_, _)
SumOver(table, ids) ==
    IF ids = {} THEN 0
    ELSE LET id == CHOOSE x \in ids : TRUE
         IN table[id].impressions + table[id].clicks + table[id].conversions
            + table[id].revenue + SumOver(table, ids \ {id})

\* the exploration stops once the counters of the table add up to MaxTotal
WithinTotal(table) == SumOver(table, DOMAIN table) <= MaxTotal

-----------------------------------------------------------------------------
(* Specifications. *)

InitCall ==
    /\ count = 0
    /\ filtered = << >>
    /\ scored = << >>
    /\ main = InitialPass
    /\ selected = << >>
    /\ outcome = "none"
    /\ last_call = "none"
    /\ prev = NoCall
    /\ updates = NoUpdates
    /\ threads = NoThreads
    /\ agent = NoAgent

Select ==
    \E cnt \in 0..MaxCount :
        select_best_offers(cnt) /\ UNCHANGED <<threads, agent>>

\* The engine in a cycle loop: selections and click reports interleave.
LoopCatalogue == { data \in Catalogue : data["id"] \in {"A", "B", "D", "F"} }
LoopLists == { AsObjects(datas) : datas \in SeqsUpTo(LoopCatalogue, MaxOffers - 1) }

Init ==
    /\ config = DefaultConfig
    /\ performance_history = EmptyTable
    /\ offers \in LoopLists
    /\ InitCall

Report ==
    \E offer_id \in PerfIds, metrics \in ClickReports :
        /\ WithinTotal(UpdatedTable(performance_history, offer_id, metrics))
        /\ update_performance(offer_id, metrics)
        /\ UNCHANGED <<threads, agent>>

Next == Select \/ Report

Spec == Init /\ [][Next]_vars

\* One selection over every candidate list, configuration and table.
InitTables ==
    { EmptyTable,
      UpdatedTable(EmptyTable, "B", [impressions |-> MaxInc, clicks |-> MaxInc]) }

InitSelect ==
    /\ config = DefaultConfig
    /\ performance_history \in InitTables
    /\ offers \in OfferLists(Catalogue, MaxOffers)
    /\ InitCall

SpecSelect == InitSelect /\ [][Select]_vars

\* The performance table under arbitrary feedback.
InitPerf ==
    /\ config = DefaultConfig
    /\ performance_history = EmptyTable
    /\ offers = << >>
    /\ InitCall

Feedback ==
    \E offer_id \in PerfIds, metrics \in MetricsInputs :
        /\ WithinTotal(UpdatedTable(performance_history, offer_id, metrics))
        /\ update_performance(offer_id, metrics)
        /\ UNCHANGED <<threads, agent>>

SpecPerf == InitPerf /\ [][Feedback]_vars

\* One selection over candidates on and next to the filter thresholds.
FilterData(cfg, price, delta) ==
    [id |-> "X", network |-> "amazon", title |-> "Deal", image_url |-> "img",
     price |-> price, original_price |-> price,
     discount_percent |-> cfg.min_discount_percent + delta[2],
     commission_rate |-> cfg.min_commission_rate + delta[1],
     commission_amount |-> 1, category |-> "Books", affiliate_url |-> "aff",
     rating |-> MinRating + delta[3], reviews |-> MinReviews + delta[4]]

NoDelta == <<0, 0, 0, 0>>

\* offers exactly on the thresholds of cfg, offers one step outside one of
\* them, and an offer one step inside the commission threshold
FilterPool(cfg) ==
    { FilterData(cfg, cfg.min_price, NoDelta), FilterData(cfg, cfg.max_price, NoDelta),
      FilterData(cfg, cfg.min_price + 1, [NoDelta EXCEPT ![1] = 1]),
      FilterData(cfg, cfg.min_price - 1, NoDelta), FilterData(cfg, cfg.max_price + 1, NoDelta),
      [FilterData(cfg, cfg.min_price, NoDelta) EXCEPT !["image_url"] = ""],
      [FilterData(cfg, cfg.max_price, NoDelta) EXCEPT !["affiliate_url"] = ""] }
    \cup { FilterData(cfg, cfg.min_price, [NoDelta EXCEPT ![i] = -1]) : i \in 1..4 }

InitFilter ==
    /\ config \in Configs
    /\ performance_history = EmptyTable
    /\ offers \in OfferLists(FilterPool(config), MaxFilterLen)
    /\ InitCall

SpecFilter == InitFilter /\ [][Select]_vars

\* One selection over offers on the edges of the price tiers, trending or not,
\* below or above the review ceiling, with or without a performance record.
PriceEdges == {19, 20, 49, 50, 200, 201, 350, 351}

\* rating 5, reviews 2000, price 100, commission_amount 50, discount 80, Electronics
ScenarioOffer ==
    [OfferData("X", "amazon", "Electronics", 100, 50, 50)
        EXCEPT !["discount_percent"] = 80, !["reviews"] = 2000]

ScorePool ==
    { [OfferData("X", "amazon", category, price, 20, 45) EXCEPT !["reviews"] = reviews] :
          category \in {"Electronics", "Books"}, price \in PriceEdges, reviews \in {500, 2000} }
    \cup { ScenarioOffer }

ScoreTables ==
    { EmptyTable,
      UpdatedTable(EmptyTable, "X", [impressions |-> MaxInc + 1, clicks |-> MaxInc]) }

InitScore ==
    /\ config = DefaultConfig
    /\ performance_history \in ScoreTables
    /\ offers \in { AsMappings(datas) : datas \in SeqsUpTo(ScorePool, MaxScoreLen) }
    /\ InitCall

SpecScore == InitScore /\ [][Select]_vars

\* One selection of up to MaxSlotCount offers over longer lists of a small
\* pool: four passing offers on three networks, in three categories, with
\* four different scores (A 50.6, C 46.2, G 44.0, D 42.0), and F, which fails
\* the quality filter.
SlotPool ==
    { OfferData("A", "amazon", "Electronics", 100, 30, 45),
      OfferData("C", "cj", "Electronics", 120, 20, 45),
      OfferData("G", "impact", "Fitness", 100, 15, 45),
      OfferData("D", "cj", "Books", 100, 20, 45),
      OfferData("F", "impact", "Books", 100, 40, 39) }

InitSlots ==
    /\ config = DefaultConfig
    /\ performance_history = EmptyTable
    /\ offers \in OfferLists(SlotPool, MaxSlotOffers)
    /\ InitCall

SelectSlots ==
    \E cnt \in 0..MaxSlotCount :
        select_best_offers(cnt) /\ UNCHANGED <<threads, agent>>

SpecSlots == InitSlots /\ [][SelectSlots]_vars

\* One selection over plain mappings that lack rating, reviews or category.
Without(data, key) == [k \in DOMAIN data \ {key} |-> data[k]]

PartialPool ==
    { Without(OfferData("R", "cj", "Books", 100, 40, 45), "rating"),
      Without(OfferData("V", "cj", "Kitchen", 100, 40, 45), "reviews"),
      Without(OfferData("N", "amazon", "Electronics", 100, 30, 45), "category"),
      Without(OfferData("M", "cj", "Electronics", 100, 25, 45), "category"),
      OfferData("Q", "impact", "General", 100, 20, 45),
      OfferData("A", "amazon", "Electronics", 100, 10, 45) }

InitPartial ==
    /\ config = DefaultConfig
    /\ performance_history = EmptyTable
    /\ offers \in { AsMappings(datas) : datas \in SeqsUpTo(PartialPool, MaxOffers) }
    /\ InitCall

SpecPartial == InitPartial /\ [][Select]_vars

\* Callers on several threads: MaxThreads callers each run update_performance
\* once for the same id, statement by statement, while another caller runs
\* selections. When the callers serialize access, a call starts only when no
\* update is under way.
Updaters == 1..MaxThreads
ThreadId == "B"
ThreadReport == [impressions |-> MaxInc, clicks |-> MaxInc]

InitThreads ==
    /\ config = DefaultConfig
    /\ performance_history = EmptyTable
    /\ offers = AsMappings(<<OfferData("B", "amazon", "Electronics", 100, 20, 45)>>)
    /\ count = 0
    /\ filtered = << >>
    /\ scored = << >>
    /\ main = InitialPass
    /\ selected = << >>
    /\ outcome = "none"
    /\ last_call = "none"
    /\ prev = NoCall
    /\ updates = NoUpdates
    /\ agent = NoAgent
    /\ \E serialized \in BOOLEAN :
           threads = [serialized |-> serialized,
                      pc |-> [t \in Updaters |-> "idle"],
                      key |-> [t \in Updaters |-> 1],
                      tmp |-> [t \in Updaters |-> 0],
                      metrics |-> [t \in Updaters |-> [k \in {} |-> 0]]]

Quiet == \A t \in DOMAIN threads.pc : threads.pc[t] \in {"idle", "done"}

ThreadFrame ==
    /\ last_call' = "update_performance"
    /\ UNCHANGED <<config, offers, count, filtered, scored, main, selected,
                   outcome, prev, updates, agent>>

\* the call is made
ThreadCall(t) ==
    /\ threads.pc[t] = "idle"
    /\ threads.serialized => Quiet
    /\ threads' = [threads EXCEPT !.pc[t] = "create", !.metrics[t] = ThreadReport]
    /\ UNCHANGED performance_history
    /\ ThreadFrame

\* lines 186-194
ThreadCreate(t) ==
    /\ threads.pc[t] = "create"
    /\ performance_history' = WithRecord(performance_history, ThreadId)
    /\ threads' = [threads EXCEPT !.pc[t] = "load", !.key[t] = 1]
    /\ ThreadFrame

\* lines 197-200, the read of the counter
ThreadLoad(t) ==
    /\ threads.pc[t] = "load"
    /\ threads' = [threads EXCEPT
                       !.pc[t] = "store",
                       !.tmp[t] = performance_history[ThreadId][KeyOrder[threads.key[t]]]]
    /\ UNCHANGED performance_history
    /\ ThreadFrame

\* lines 197-200, the write of the counter
ThreadStore(t) ==
    /\ threads.pc[t] = "store"
    /\ LET key == KeyOrder[threads.key[t]]
       IN performance_history' =
              Stored(performance_history, ThreadId, key,
                     threads.tmp[t] + Get(threads.metrics[t], key, 0))
    /\ threads' = IF threads.key[t] < Len(KeyOrder)
                  THEN [threads EXCEPT !.pc[t] = "load", !.key[t] = @ + 1]
                  ELSE [threads EXCEPT !.pc[t] = "rates"]
    /\ ThreadFrame

\* lines 203-206
ThreadRates(t) ==
    /\ threads.pc[t] = "rates"
    /\ performance_history' =
           [performance_history EXCEPT ![ThreadId] = Rated(@)]
    /\ threads' = [threads EXCEPT !.pc[t] = "done"]
    /\ ThreadFrame

\* a selection by another caller (the scoring read of lines 116-119)
ThreadRead ==
    /\ threads.serialized => Quiet
    /\ select_best_offers(1)
    /\ UNCHANGED <<threads, agent>>

NextThreads ==
    \/ \E t \in Updaters : ThreadCall(t)
    \/ \E t \in Updaters : ThreadCreate(t)
    \/ \E t \in Updaters : ThreadLoad(t)
    \/ \E t \in Updaters : ThreadStore(t)
    \/ \E t \in Updaters : ThreadRates(t)
    \/ ThreadRead

SpecThreads == InitThreads /\ [][NextThreads]_vars

\* The agent: cycles over the offers its connectors return, and clicks and
\* conversions arriving at the tracker in between.
AgentPool ==
    { OfferData("A", "amazon", "Electronics", 100, 30, 45),
      OfferData("D", "cj", "Books", 100, 20, 45),
      OfferData("F", "impact", "Books", 100, 40, 39),
      [OfferData("H", "cj", "Kitchen", 100, 25, 45) EXCEPT !["title"] = NoneValue] }

TrackIds == {"A", "D"}

InitAgent ==
    /\ config = DefaultConfig
    /\ performance_history = EmptyTable
    /\ offers \in { AsObjects(datas) : datas \in SeqsUpTo(AgentPool, MaxOffers - 1) }
    /\ count = 0
    /\ filtered = << >>
    /\ scored = << >>
    /\ main = InitialPass
    /\ selected = << >>
    /\ outcome = "none"
    /\ last_call = "none"
    /\ prev = NoCall
    /\ updates = NoUpdates
    /\ threads = NoThreads
    /\ agent = NewAgent

run_cycle ==
    /\ agent.started < MaxCycles
    /\ select_best_offers(posts_per_hour)
    /\ \E ending \in CycleEndings :
           agent' = AfterCycle(agent, Len(offers), selected', outcome', ending)
    /\ UNCHANGED threads

AgentFrame(call) ==
    /\ last_call' = call
    /\ UNCHANGED <<config, performance_history, offers, count, filtered, scored,
                   main, selected, outcome, prev, updates, threads>>

track_click ==
    \E offer_id \in TrackIds :
        /\ agent.total_clicks < MaxCycles
        /\ agent' = TrackedClick(agent, offer_id)
        /\ AgentFrame("track_click")

track_conversion ==
    \E offer_id \in TrackIds :
        /\ agent.total_conversions < MaxCycles - 1
        /\ agent' = TrackedConversion(agent, offer_id)
        /\ AgentFrame("track_conversion")

NextAgent == run_cycle \/ track_click \/ track_conversion

SpecAgent == InitAgent /\ [][NextAgent]_vars

-----------------------------------------------------------------------------
(* Vocabulary of the properties. *)

Field(offer, key) == OfferDict(offer)[key]

\* the six conditions of the hard filter, as the contract words them
MeetsAllSix(cfg, offer) ==
    LET d == OfferDict(offer) IN
    /\ d["commission_rate"] >= cfg.min_commission_rate
    /\ d["discount_percent"] >= cfg.min_discount_percent
    /\ cfg.min_price <= d["price"] /\ d["price"] <= cfg.max_price
    /\ "image_url" \in DOMAIN d /\ d["image_url"] \notin {"", NoneValue}
    /\ "affiliate_url" \in DOMAIN d /\ d["affiliate_url"] \notin {"", NoneValue}
    /\ "rating" \in DOMAIN d /\ d["rating"] >= 40
    /\ "reviews" \in DOMAIN d /\ d["reviews"] >= 50

PassingPositions == { i \in 1..Len(offers) : MeetsAllSix(config, offers[i]) }
NumPassing == Cardinality(PassingPositions)

PairwiseDistinct(list) ==
    \A i, j \in 1..Len(list) : i # j => list[i] # list[j]

DistinctIds(list) ==
    \A i, j \in 1..Len(list) : i # j => Field(list[i], "id") # Field(list[j], "id")

\* how many offers of a list come from a network
FromNetwork(list, network) ==
    Cardinality({ i \in 1..Len(list) : Field(list[i], "network") = network })

Networks == { Field(offers[i], "network") : i \in 1..Len(offers) }

Returned == outcome = "returned"

\* backfill appended to what the main pass had selected
Backfilled == Returned /\ Len(main.selected) < Len(selected)

-----------------------------------------------------------------------------
(* Properties. *)

\* C1: the returned list is no longer than min(count, number of offers passing
\* the hard filters), and is empty when count is 0.
SelectionSizeBound ==
    Returned =>
        /\ Len(selected) <= Min(count, NumPassing)
        /\ count = 0 => Len(selected) = 0

\* C1 witness: fewer offers pass than were asked for, some offer was filtered
\* out, and all passing offers were returned.
SelectionSizeBoundWitness ==
    /\ Returned /\ count = 3 /\ Len(offers) = 3 /\ NumPassing = 2
    /\ Len(selected) = 2

\* C2: for pairwise distinct offers the call returns exactly
\* min(count, number of passing offers) offers, backfill included.
ExactSelectionSize ==
    (Returned /\ PairwiseDistinct(offers)) => Len(selected) = Min(count, NumPassing)

\* C2 witness: the main pass left slots unfilled although count offers passed,
\* and backfill filled them.
ExactSelectionSizeWitness ==
    /\ Backfilled /\ PairwiseDistinct(offers)
    /\ NumPassing >= count /\ count >= 2 /\ Len(main.selected) >= 1
    /\ Len(selected) = count

\* C3: when the input ids are pairwise distinct, so are the ids of the result.
NoDuplicateIds ==
    (Returned /\ DistinctIds(offers)) => DistinctIds(selected)

\* C3 witness: a result of main-pass and backfilled offers with distinct ids.
NoDuplicateIdsWitness ==
    /\ Backfilled /\ DistinctIds(offers)
    /\ Len(main.selected) >= 1 /\ Len(selected) = 3

\* C4: after the filter stage, `filtered` holds exactly the offers meeting all
\* six conditions, in input order.
FilterExact ==
    outcome # "none" =>
        filtered = SelectSeq(offers, LAMBDA offer : MeetsAllSix(config, offer))

\* C4 witness: an offer on the price boundary was retained and an offer failing
\* one condition was dropped, under the strict configuration.
FilterExactWitness ==
    /\ outcome # "none" /\ config = StrictConfig
    /\ Len(offers) = 2 /\ Len(filtered) = 1
    /\ Field(filtered[1], "price") = config.max_price
    /\ filtered[1] = offers[2]

\* C5: when no offer passes the filters the call returns the empty list and
\* does not raise.
EmptyWhenNothingPasses ==
    (outcome # "none" /\ NumPassing = 0) => (Returned /\ selected = << >>)

\* C5 witness: a non-empty list whose offers all fail, a positive count, and a
\* table with a record.
EmptyWhenNothingPassesWitness ==
    /\ Returned /\ Len(offers) >= 2 /\ NumPassing = 0 /\ count >= 1
    /\ DOMAIN performance_history # {} /\ selected = << >>

\* C6: at every point of the main pass no network has more than count // 2
\* selected offers; a result the main pass filled alone obeys the same cap.
NetworkCap ==
    /\ \A k \in 0..Len(scored) :
           LET st == MainPass(scored, count, k) IN
           \A network \in Networks :
               /\ Get(st.networks_used, network, 0) <= count \div 2
               /\ FromNetwork(st.selected, network) <= count \div 2
    /\ (Returned /\ Len(main.selected) = count) =>
           \A network \in Networks : FromNetwork(selected, network) <= count \div 2

\* C6 witness: the main pass filled both slots of count = 2 alone, passing over
\* the second scorer because its network was at the cap of 1.
NetworkCapWitness ==
    /\ Returned /\ count = 2 /\ Len(scored) = 3 /\ selected = main.selected
    /\ Field(scored[2].offer, "network") = Field(scored[1].offer, "network")
    /\ selected = <<scored[1].offer, scored[3].offer>>

\* the first n offers of the score-sorted list
TopScorers(n) == [i \in 1..Min(n, Len(scored)) |-> scored[i].offer]

Category(offer) == Get(OfferDict(offer), "category", "General")

TopDistinct ==
    LET top == TopScorers(count) IN
    \A i, j \in 1..Len(top) : i # j =>
        /\ Category(top[i]) # Category(top[j])
        /\ Field(top[i], "network") # Field(top[j], "network")

\* C7: when the count top scorers have pairwise distinct categories and
\* networks, the result is the first count offers of the score-sorted list.
TopScorersWhenDiverse ==
    (Returned /\ TopDistinct) => selected = TopScorers(count)

\* C7 witness: count = 1 (network cap 0) with several passing offers.
TopScorersWhenDiverseWitness ==
    /\ Returned /\ TopDistinct /\ count = 1 /\ Len(scored) >= 2
    /\ selected = <<scored[1].offer>>

\* C8: select_best_offers never raises on offers that carry every field of the
\* Offer data model.
NeverRaises == outcome # "raised"

\* the score the contract gives an offer under a table: the trending score
\* times (1 + cumulative clicks / cumulative impressions) when the id has a
\* record that received impressions, the trending score alone otherwise
ContractScore(table, offer) ==
    LET id == Field(offer, "id")
        base == TrendingScore(OfferDict(offer))
    IN IF id \in DOMAIN table /\ table[id].impressions > 0
       THEN Ratio(base[1] * (table[id].impressions + table[id].clicks),
                  base[2] * table[id].impressions)
       ELSE base

\* C9: a selection scores every filtered offer with the table as the preceding
\* updates left it.
ScoredWithCurrentTable ==
    last_call = "select_best_offers" =>
        /\ Len(scored) = Len(filtered)
        /\ \A i \in 1..Len(filtered) : \E j \in 1..Len(scored) : scored[j].offer = filtered[i]
        /\ \A j \in 1..Len(scored) :
               scored[j].score = ContractScore(performance_history, scored[j].offer)

\* C9 witness: two selections over the same offers and count, an update in
\* between, and a different result.
ScoredWithCurrentTableWitness ==
    /\ last_call = "select_best_offers" /\ Returned
    /\ updates.n >= 1 /\ prev.outcome = "returned" /\ prev.count = count
    /\ count = 1 /\ prev.selected # selected
    /\ \E j \in 1..Len(scored) :
           /\ Field(scored[j].offer, "id") \in DOMAIN performance_history
           /\ scored[j].score # TrendingScore(OfferDict(scored[j].offer))

SameCountersAndRates(r1, r2) ==
    /\ r1.impressions = r2.impressions
    /\ r1.clicks = r2.clicks
    /\ r1.conversions = r2.conversions
    /\ r1.ctr = r2.ctr
    /\ r1.conversion_rate = r2.conversion_rate

\* C10: two consecutive updates of one id leave the counters and rates that a
\* single update with the summed increments leaves.
UpdateComposes ==
    updates.n = 2 =>
        SameCountersAndRates(
            performance_history[updates.offer_id],
            UpdatedTable(updates.before, updates.offer_id, updates.metrics)[updates.offer_id])

\* C10 witness: {clicks: 1} twice on a record that has impressions.
UpdateComposesWitness ==
    /\ updates.n = 2 /\ updates.metrics = [clicks |-> 2]
    /\ updates.offer_id \in DOMAIN updates.before
    /\ performance_history[updates.offer_id].impressions > 0
    /\ performance_history[updates.offer_id].clicks = 2

\* the rates a record must carry for its cumulative totals
RatesOfTotals(r) ==
    /\ r.ctr = IF r.impressions > 0 THEN Ratio(r.clicks, r.impressions) ELSE <<0, 1>>
    /\ r.conversion_rate = IF r.clicks > 0 THEN Ratio(r.conversions, r.clicks) ELSE <<0, 1>>

\* the record of "X" after {impressions: 100, clicks: 10} then {clicks: 5, conversions: 3}
TwoReportsRecord ==
    UpdatedTable(UpdatedTable(EmptyTable, "X", [impressions |-> 100, clicks |-> 10]),
                 "X", [clicks |-> 5, conversions |-> 3])["X"]

\* C11: after any sequence of updates every record's ctr is cumulative clicks
\* over cumulative impressions (0 without impressions) and its conversion_rate
\* is cumulative conversions over cumulative clicks (0 without clicks); the two
\* reports of the example leave 100, 15, 3, ctr 15/100 and conversion_rate 3/15.
RatesFollowTotals ==
    /\ \A id \in DOMAIN performance_history : RatesOfTotals(performance_history[id])
    /\ updates.n >= 1 =>
           /\ TwoReportsRecord.impressions = 100
           /\ TwoReportsRecord.clicks = 15
           /\ TwoReportsRecord.conversions = 3
           /\ TwoReportsRecord.ctr = Ratio(15, 100)
           /\ TwoReportsRecord.conversion_rate = Ratio(3, 15)

\* C11 witness: a report with impressions and clicks, then one with clicks
\* only; the ctr is the two click counts together over the impressions, and
\* the conversion rate is 0 over the two clicks.
RatesFollowTotalsWitness ==
    /\ updates.n = 2 /\ updates.offer_id \notin DOMAIN updates.before
    /\ DOMAIN updates.metrics = {"impressions", "clicks"}
    /\ performance_history[updates.offer_id].impressions = 1
    /\ performance_history[updates.offer_id].clicks = 2
    /\ performance_history[updates.offer_id].ctr = <<2, 1>>
    /\ performance_history[updates.offer_id].conversion_rate = <<0, 1>>

\* C12: across selections and updates the table never loses an id, and the
\* impressions, clicks, conversions and revenue of a record never decrease.
TableOnlyGrows ==
    [][ /\ DOMAIN performance_history \subseteq DOMAIN performance_history'
        /\ \A id \in DOMAIN performance_history : \A key \in MetricKeys :
               performance_history'[id][key] >= performance_history[id][key] ]_vars

\* C12 witness: a selection made after updates of two ids, one of them updated
\* more than once.
TableOnlyGrowsWitness ==
    /\ last_call = "select_best_offers" /\ outcome = "returned"
    /\ DOMAIN performance_history = PerfIds
    /\ \E id \in PerfIds : performance_history[id].impressions + performance_history[id].clicks >= 2

\* C13: a selection leaves the performance table and the caller's offer list
\* as they were; a step that changes the table is an update_performance.
SelectionFrame ==
    [][ /\ last_call' = "select_best_offers" =>
               /\ performance_history' = performance_history
               /\ offers' = offers
        /\ performance_history' # performance_history =>
               last_call' = "update_performance" ]_vars

\* C13 witness: a selection that scored an offer with a record and an offer
\* without one, and whose score order differs from the order of the list.
SelectionFrameWitness ==
    /\ last_call = "select_best_offers" /\ outcome = "returned"
    /\ Len(offers) >= 2 /\ Len(selected) >= 1
    /\ selected[1] = offers[2] /\ offers[1] # offers[2]
    /\ \E i, j \in 1..Len(scored) :
           /\ Field(scored[i].offer, "id") \in DOMAIN performance_history
           /\ Field(scored[j].offer, "id") \notin DOMAIN performance_history

\* C15: an update of an id without a record leaves for it the all-zero record
\* plus the increments, a metric field that is absent counting as 0 (so empty
\* metrics leave the all-zero record), and leaves every other record alone.
FirstUpdateCreatesRecord ==
    (updates.n = 1 /\ updates.offer_id \notin DOMAIN updates.before) =>
        /\ DOMAIN performance_history = DOMAIN updates.before \cup {updates.offer_id}
        /\ \A key \in MetricKeys :
               performance_history[updates.offer_id][key] =
                   IF key \in DOMAIN updates.metrics THEN updates.metrics[key] ELSE 0
        /\ RatesOfTotals(performance_history[updates.offer_id])
        /\ \A id \in DOMAIN updates.before : performance_history[id] = updates.before[id]

\* C15 witness: empty metrics for an id without a record, next to a record
\* that already has counts.
FirstUpdateCreatesRecordWitness ==
    /\ updates.n = 1 /\ updates.offer_id \notin DOMAIN updates.before
    /\ DOMAIN updates.metrics = {}
    /\ performance_history[updates.offer_id] = NewRecord
    /\ \E id \in DOMAIN updates.before : updates.before[id].clicks > 0

\* the price appeal as the contract words it
PriceAppeal(price) ==
    IF price \in 50..200 THEN 15
    ELSE IF price \in (20..49) \cup (201..350) THEN 10
    ELSE 5

\* the contract's component sum, in thousandths (rating in tenths):
\* commission_amount * 0.4 + discount_percent / 100 * 25 + rating / 5 * 10
\*   + min(reviews / 1000, 1) * 10 + price_appeal
ContractComponents(d) ==
      d["commission_amount"] * 400
    + d["discount_percent"] * 250
    + d["rating"] * 200
    + (IF d["reviews"] >= 1000 THEN 10000 ELSE d["reviews"] * 10)
    + PriceAppeal(d["price"]) * 1000

\* score = components * 1.10 (trending category) * (1 + ctr) (id with a record)
ScoreIsContractScore(table, item) ==
    LET d == OfferDict(item.offer)
        trending == d["category"] \in {"Electronics", "Smart Home", "Fitness", "Kitchen"}
        known == d["id"] \in DOMAIN table
        ctr == IF known THEN table[d["id"]].ctr ELSE <<0, 1>>
        num == ContractComponents(d) * (IF trending THEN 11 ELSE 10) * (ctr[2] + ctr[1])
        den == 1000 * 10 * ctr[2]
    IN item.score[1] * den = num * item.score[2]

\* C16: the score of every scored offer is the contract's formula; the offer of
\* the example, without a record, scores (20 + 20 + 20 + 15) * 1.10 = 82.5.
ScoreFormula ==
    \A j \in 1..Len(scored) :
        /\ ScoreIsContractScore(performance_history, scored[j])
        /\ (scored[j].offer.fields = ScenarioOffer /\ performance_history = EmptyTable)
               => scored[j].score = <<165, 2>>

\* C16 witness: the offer of the example, without a record, scored at 82.5.
ScoreFormulaWitness ==
    /\ outcome = "returned" /\ Len(scored) = 1
    /\ scored[1].offer.fields = ScenarioOffer
    /\ performance_history = EmptyTable
    /\ scored[1].score = <<165, 2>>

\* a call with count = 4 over a list of which exactly 3 offers pass the
\* filters, each on a different network
ThreePassingOnThreeNetworks ==
    /\ Returned /\ count = 4 /\ NumPassing = 3 /\ Len(filtered) = 3
    /\ Cardinality({ Field(filtered[i], "network") : i \in 1..3 }) = 3

CategoriesDistinct(list) ==
    \A i, j \in 1..Len(list) : i # j => Category(list[i]) # Category(list[j])

Lacks(offer, key) == key \notin DOMAIN offer.fields

\* the category the contract gives a plain mapping for the diversity rule
CategoryOrGeneral(offer) ==
    IF Lacks(offer, "category") THEN "General" ELSE offer.fields["category"]

\* C18: a selection over plain mappings that lack rating, reviews or category
\* returns; the mappings without rating or without reviews are filtered out;
\* a mapping without category gets no trending bonus and counts as category
\* 'General' in the diversity rule.
PartialMappingsHandled ==
    last_call = "select_best_offers" =>
        /\ outcome = "returned"
        /\ \A i \in 1..Len(filtered) :
               ~Lacks(filtered[i], "rating") /\ ~Lacks(filtered[i], "reviews")
        /\ \A j \in 1..Len(scored) :
               Lacks(scored[j].offer, "category") =>
                   scored[j].score[1] * 1000
                       = ContractComponents(scored[j].offer.fields) * scored[j].score[2]
        /\ main.categories_used =
               { CategoryOrGeneral(main.selected[i]) : i \in 1..Len(main.selected) }
        /\ \A i, j \in 1..Min(Len(main.selected), count - 1) :
               i # j => CategoryOrGeneral(main.selected[i]) # CategoryOrGeneral(main.selected[j])

\* C18 witness: mappings without rating and without reviews filtered out, and
\* a mapping without category selected first, after which the main pass skips
\* the offer of category 'General' and backfill appends it.
PartialMappingsHandledWitness ==
    /\ outcome = "returned" /\ count = 3 /\ Len(offers) = 3
    /\ \E i \in 1..3 : Lacks(offers[i], "rating") \/ Lacks(offers[i], "reviews")
    /\ Len(scored) = 2
    /\ Lacks(scored[1].offer, "category")
    /\ ~Lacks(scored[2].offer, "category")
    /\ CategoryOrGeneral(scored[2].offer) = "General"
    /\ main.selected = <<scored[1].offer>>
    /\ selected = <<scored[1].offer, scored[2].offer>>

\* c2 is at least as strict as c1
AtLeastAsStrict(c2, c1) ==
    /\ c2.min_commission_rate >= c1.min_commission_rate
    /\ c2.min_discount_percent >= c1.min_discount_percent
    /\ c2.min_price >= c1.min_price
    /\ c2.max_price <= c1.max_price

\* cfg with any of its four thresholds moved one step to the strict side
Tightenings(cfg) ==
    { [min_commission_rate |-> cfg.min_commission_rate + d[1],
       min_discount_percent |-> cfg.min_discount_percent + d[2],
       min_price |-> cfg.min_price + d[3],
       max_price |-> cfg.max_price - d[4]] : d \in [1..4 -> {0, 1}] }

\* C19: every offer of the list that a configuration at least as strict as
\* the engine's retains is among the offers the engine's filter retained.
FilterMonotone ==
    last_call = "select_best_offers" =>
        \A c2 \in Tightenings(config) \cup Configs :
            AtLeastAsStrict(c2, config) =>
                LET retained == _apply_filters(c2, offers)
                IN \A i \in 1..Len(retained) : \E j \in 1..Len(filtered) :
                       filtered[j] = retained[i]

\* C19 witness: a stricter configuration that retains some but not all of the
\* offers the engine's filter retained.
FilterMonotoneWitness ==
    /\ last_call = "select_best_offers"
    /\ \E c2 \in Tightenings(config) :
           /\ c2 # config
           /\ Len(_apply_filters(c2, offers)) >= 1
           /\ Len(_apply_filters(c2, offers)) < Len(filtered)

\* the first count - 1 selections of the main pass
FirstSelections == SubSeq(main.selected, 1, count - 1)

\* the main pass reached count - 1 selections
LastSlotOpen == Returned /\ count >= 1 /\ Len(main.selected) >= count - 1

\* the scored positions whose offer is not among the first count - 1
\* selections
Remaining == { j \in 1..Len(scored) : NotIn(scored[j].offer, FirstSelections) }

\* the scored positions whose network is under the cap after the first
\* count - 1 selections
UnderCap ==
    { j \in 1..Len(scored) :
          FromNetwork(FirstSelections, Field(scored[j].offer, "network")) < count \div 2 }

\* how many items the main pass had visited when it made selection count - 1
ReachedAt ==
    CHOOSE k \in 0..Len(scored) :
        /\ Len(MainPass(scored, count, k).selected) = count - 1
        /\ \A h \in 0..(k - 1) : Len(MainPass(scored, count, h).selected) < count - 1

Least(S) == CHOOSE j \in S : \A h \in S : j <= h

\* C20 as stated: once the main pass has count - 1 selections, the last slot
\* of the result holds the highest-scoring offer not yet selected whose
\* network is under the cap, also when the pass skipped it earlier.
LastSlotBestRemaining ==
    (LastSlotOpen /\ Remaining \cap UnderCap # {}) =>
        /\ Len(selected) = count
        /\ selected[count] = scored[Least(Remaining \cap UnderCap)].offer

\* C20: once the main pass has count - 1 selections, it gives the last slot
\* to the first offer after that point of the score order whose network is
\* under the cap, whatever its category; it does not go back to an offer it
\* skipped. When no such offer follows, the main pass ends one short and the
\* slot goes to backfill's first offer not yet selected.
LastSlotNextInOrder ==
    LastSlotOpen =>
        LET later == { j \in UnderCap : j > ReachedAt }
        IN IF later # {}
           THEN /\ selected = main.selected
                /\ Len(selected) = count
                /\ selected[count] = scored[Least(later)].offer
           ELSE /\ Len(main.selected) = count - 1
                /\ Remaining # {} =>
                       /\ Len(selected) = count
                       /\ selected[count] = scored[Least(Remaining)].offer

\* C20 witness: count = 3; the second scorer is skipped for its category, its
\* network stays unused, and the last slot goes to the fourth scorer, which
\* scores lower.
LastSlotNextInOrderWitness ==
    /\ LastSlotOpen /\ count = 3 /\ Len(scored) = 4
    /\ selected = <<scored[1].offer, scored[3].offer, scored[4].offer>>
    /\ Category(scored[2].offer) = Category(scored[1].offer)
    /\ 2 \in Remaining \cap UnderCap
    /\ RatLess(scored[4].score, scored[2].score)

\* C21: the first count - 1 selections of the main pass have pairwise
\* distinct categories; a candidate met when count - 1 offers are selected is
\* not skipped for its category; and in a result made without backfill only
\* the last offer, the one in slot count, can share its category with an
\* earlier one.
CategoryRuleOnlyBeforeLastSlot ==
    Returned =>
        /\ CategoriesDistinct(SubSeq(main.selected, 1, Min(Len(main.selected), count - 1)))
        /\ \A k \in 1..Len(scored) :
               LET before == MainPass(scored, count, k - 1)
                   network == Field(scored[k].offer, "network")
               IN (/\ count >= 1
                   /\ Len(before.selected) = count - 1
                   /\ Get(before.networks_used, network, 0) < count \div 2)
                  => MainPass(scored, count, k).selected
                         = Append(before.selected, scored[k].offer)
        /\ selected = main.selected =>
               \A i, j \in 1..Len(selected) :
                   (i < j /\ Category(selected[i]) = Category(selected[j])) => j = count

\* C21 witness: count = 2; with one offer selected the second scorer, of the
\* same category, is not skipped, and the result is made without backfill.
CategoryRuleOnlyBeforeLastSlotWitness ==
    /\ Returned /\ count = 2 /\ Len(scored) >= 2
    /\ main.selected = <<scored[1].offer, scored[2].offer>>
    /\ selected = main.selected
    /\ Category(scored[2].offer) = Category(scored[1].offer)

\* the first position of an offer in the score order (0 when it is not there)
ScorePosition(offer) ==
    IF \E k \in 1..Len(scored) : scored[k].offer = offer
    THEN Least({ k \in 1..Len(scored) : scored[k].offer = offer })
    ELSE 0

\* C22: when the main pass ends with fewer than count selections, the result
\* is the main pass's selections followed by offers not yet selected, taken
\* in descending score order, whatever their category and network, until
\* count offers are selected or no offer is left.
BackfillCompletes ==
    (Returned /\ Len(main.selected) < count) =>
        LET m == Len(main.selected) IN
        /\ Len(selected) >= m /\ SubSeq(selected, 1, m) = main.selected
        /\ Len(selected) <= count
        /\ Len(selected) < count =>
               \A k \in 1..Len(scored) : ~NotIn(scored[k].offer, selected)
        /\ \A i \in (m + 1)..Len(selected) :
               /\ NotIn(selected[i], SubSeq(selected, 1, i - 1))
               /\ ScorePosition(selected[i]) >= 1
               /\ i > m + 1 => ScorePosition(selected[i - 1]) < ScorePosition(selected[i])
               /\ \A k \in 1..(ScorePosition(selected[i]) - 1) :
                      ~NotIn(scored[k].offer, SubSeq(selected, 1, i - 1))

\* C22 witness: backfill appended two offers in score order, and the result
\* holds more than count // 2 offers of one network and a repeated category.
BackfillCompletesWitness ==
    /\ Returned /\ Len(main.selected) < count
    /\ Len(selected) = Len(main.selected) + 2
    /\ \E i \in 1..Len(selected) :
           FromNetwork(selected, Field(selected[i], "network")) > count \div 2
    /\ ~CategoriesDistinct(selected)

\* the score the selection gave an offer
ScoreOf(offer) == scored[ScorePosition(offer)].score

\* C23: the scored list is in descending score order, and the offers of one
\* score stand in it in the order they have in the filtered input.
SortedStable ==
    last_call = "select_best_offers" =>
        /\ \A i, j \in 1..Len(scored) :
               i < j => ~RatLess(scored[i].score, scored[j].score)
        /\ \A k \in 1..Len(scored) :
               LET same == SelectSeq(scored, LAMBDA item : item.score = scored[k].score)
               IN [i \in 1..Len(same) |-> same[i].offer]
                      = SelectSeq(filtered, LAMBDA offer : ScoreOf(offer) = scored[k].score)

\* C23 witness: C before B in the input, both at the top score; with count = 1
\* the result is C, the earlier of the two.
SortedStableWitness ==
    /\ Returned /\ count = 1 /\ Len(offers) >= 2 /\ Len(scored) >= 2
    /\ Field(offers[1], "id") = "C" /\ Field(offers[2], "id") = "B"
    /\ scored[1].score = scored[2].score
    /\ scored[1].offer = offers[1] /\ scored[2].offer = offers[2]
    /\ selected = <<offers[1]>>

\* the increments of the updates that ran to their end, added up
RECURSIVE Reported(_, _)
Reported(key, callers) ==
    IF callers = {} THEN 0
    ELSE LET t == CHOOSE x \in callers : TRUE
         IN Get(threads.metrics[t], key, 0) + Reported(key, callers \ {t})

Finished == { t \in DOMAIN threads.pc : threads.pc[t] = "done" }

\* the scoring read saw a ctr that matches the counters of the record
ReadMatchesCounters ==
    \A j \in 1..Len(scored) :
        scored[j].score = ContractScore(performance_history, scored[j].offer)

\* no increment of a finished update is missing from the table
NothingLost ==
    ThreadId \in DOMAIN performance_history =>
        \A key \in MetricKeys :
            performance_history[ThreadId][key] = Reported(key, Finished)

\* C24: when the callers serialize access, every selection scores with a ctr
\* that is clicks / impressions of the record it reads, and between updates
\* the table holds every reported increment and the rates of its totals.
SerializedIsConsistent ==
    threads.serialized =>
        /\ last_call = "select_best_offers" => ReadMatchesCounters
        /\ Quiet =>
               /\ NothingLost
               /\ \A id \in DOMAIN performance_history :
                      RatesOfTotals(performance_history[id])

\* C24 witness: without serialization a selection runs between the counter
\* writes and the rate recomputation of an update, and scores with a ctr
\* that is not clicks / impressions of the record.
SerializedIsConsistentWitness ==
    /\ ~threads.serialized
    /\ last_call = "select_best_offers" /\ outcome = "returned"
    /\ ThreadId \in DOMAIN performance_history
    /\ performance_history[ThreadId].impressions > 0
    /\ ~ReadMatchesCounters

\* C25: a cycle whose selection is empty adds the number of fetched offers to
\* offers_processed and changes nothing else: no content, landing page, post
\* or analytics record, no cycle counted, no error recorded.
EmptySelectionSkipsCycle ==
    [][ (last_call' = "select_best_offers" /\ outcome' = "returned" /\ selected' = << >>)
        => /\ agent'.stats = [agent.stats EXCEPT !.offers_processed = @ + Len(offers)]
           /\ agent'.content_items = agent.content_items
           /\ agent'.landing_pages = agent.landing_pages
           /\ agent'.offer_performance = agent.offer_performance ]_vars

\* C25 witness: a second cycle over a list whose only offer fails the quality
\* filter; two fetched offers processed, no cycle run, no error.
EmptySelectionSkipsCycleWitness ==
    /\ agent.attached /\ agent.started = 2
    /\ last_call = "select_best_offers" /\ outcome = "returned" /\ selected = << >>
    /\ Len(offers) = 1 /\ filtered = << >>
    /\ agent.stats = [cycles_run |-> 0, offers_processed |-> 2, posts_published |-> 0,
                      errors |-> 0]

\* C26: when a cycle scores an offer that an earlier cycle promoted and for
\* which clicks or conversions were tracked since, the engine's table holds
\* a record for that offer.
FeedbackReachesEngine ==
    (agent.attached /\ last_call = "select_best_offers") =>
        \A j \in 1..Len(scored) :
            LET id == Field(scored[j].offer, "id")
            IN (/\ id \in DOMAIN agent.offer_performance
                /\ agent.offer_performance[id].times_promoted >= 1
                /\ agent.offer_performance[id].clicks
                       + agent.offer_performance[id].conversions >= 1)
               => id \in DOMAIN performance_history

\* the engine's table in the agent's runs
AgentNeverReports == agent.attached => performance_history = EmptyTable

\* C27: every returned element is one of the caller's offers, as supplied,
\* and that offer passes all six hard filters; it is not a score record.
OnlySuppliedPassingOffers ==
    Returned =>
        \A i \in 1..Len(selected) :
            /\ DOMAIN selected[i] = {"kind", "ref", "fields"}
            /\ \E k \in 1..Len(offers) :
                   offers[k] = selected[i] /\ MeetsAllSix(config, offers[k])

\* C27 witness: count = 1 over an offer that fails a filter followed by one
\* that passes; backfill returns the second.
OnlySuppliedPassingOffersWitness ==
    /\ Backfilled /\ count = 1 /\ Len(offers) = 2
    /\ ~MeetsAllSix(config, offers[1])
    /\ selected = <<offers[2]>>

\* the first offer of the filtered list that no filtered offer outscores
BestFiltered ==
    LET score(i) == ContractScore(performance_history, filtered[i])
        best == { i \in 1..Len(filtered) :
                     \A j \in 1..Len(filtered) : ~RatLess(score(i), score(j)) }
    IN filtered[Least(best)]

\* C28: for count >= 1 and at least one passing offer, the first element of
\* the result is the highest-scoring filtered offer, the earliest in input
\* order among equal scores; with count >= 2 the main pass selects it first,
\* with count = 1 the main pass selects nothing and backfill returns it.
BestOfferFirst ==
    (Returned /\ count >= 1 /\ Len(filtered) >= 1) =>
        /\ Len(selected) >= 1 /\ selected[1] = BestFiltered
        /\ count >= 2 => (Len(main.selected) >= 1 /\ main.selected[1] = BestFiltered)
        /\ count = 1 => main.selected = << >>

\* C28 witness: the best offer stands last in the input, its score raised
\* over the others by its record, and count = 1.
BestOfferFirstWitness ==
    /\ Returned /\ count = 1 /\ Len(filtered) = 3
    /\ BestFiltered = filtered[3] /\ filtered[3] # filtered[1]
    /\ Field(filtered[3], "id") \in DOMAIN performance_history
    /\ main.selected = << >> /\ selected = <<filtered[3]>>

\* C29: an update changes the record of its id only: the other records stay
\* as they were and no other id is added.
UpdateTouchesOneRecord ==
    [][ last_call' = "update_performance" =>
            /\ DOMAIN performance_history'
                   = DOMAIN performance_history \cup {updates'.offer_id}
            /\ \A id \in DOMAIN performance_history \ {updates'.offer_id} :
                   performance_history'[id] = performance_history[id] ]_vars

\* C29 witness: an update of one id that changed its record, next to the
\* record of another id that has counts.
UpdateTouchesOneRecordWitness ==
    /\ updates.n = 1 /\ DOMAIN updates.before = PerfIds
    /\ performance_history[updates.offer_id] # updates.before[updates.offer_id]
    /\ \E id \in PerfIds \ {updates.offer_id} :
           /\ performance_history[id].clicks > 0
           /\ performance_history[id] = updates.before[id]

\* a fraction that is not negative
NonNegative(x) == x[1] >= 0 /\ x[2] > 0

\* C30: every record's ctr and conversion_rate are non-negative, so the
\* multiplier 1 + ctr is at least 1 and an offer with a record never scores
\* below the score it has without one.
RecordNeverLowersScore ==
    /\ \A id \in DOMAIN performance_history :
           /\ NonNegative(performance_history[id].ctr)
           /\ NonNegative(performance_history[id].conversion_rate)
           /\ ~RatLess(Boost(<<1, 1>>, performance_history[id].ctr), <<1, 1>>)
    /\ last_call = "select_best_offers" =>
           \A j \in 1..Len(scored) :
               ~RatLess(scored[j].score, Score(EmptyTable, scored[j].offer))

\* C30 witness: one selection scored an offer whose record has clicks, above
\* its score without a record, and an offer whose record has none, at it.
RecordNeverLowersScoreWitness ==
    /\ last_call = "select_best_offers" /\ Len(scored) = 2
    /\ \E i, j \in 1..2 :
           LET a == Field(scored[i].offer, "id")
               b == Field(scored[j].offer, "id")
           IN /\ a \in DOMAIN performance_history /\ b \in DOMAIN performance_history
              /\ performance_history[a].ctr[1] > 0
              /\ RatLess(Score(EmptyTable, scored[i].offer), scored[i].score)
              /\ performance_history[b].impressions > 0
              /\ performance_history[b].ctr[1] = 0
              /\ scored[j].score = Score(EmptyTable, scored[j].offer)

====
